---- MODULE Spec2Model ----
(***************************************************************************)
(* Model of applications/app_flap.c: the flap application of the VESC      *)
(* firmware.  Three execution contexts share the file's static variables:  *)
(*   - the owner, which calls app_custom_start and app_custom_stop;        *)
(*   - the terminal, which calls the registered command callback flap;     *)
(*   - the polling thread my_thread.                                       *)
(* The thread is modelled statement block by statement block: a step ends  *)
(* where the thread sleeps or before it reads or writes a variable that    *)
(* another context writes or reads (stop_now, is_running,                  *)
(* cmd_flap_trigger).  Duty values are integers (a scaled duty cycle).     *)
(***************************************************************************)
EXTENDS Integers, Sequences, FiniteSets, TLC

(* ------------------------------ bounds -------------------------------- *)
\* under Spec a tick begins only while the countdown is not running or has
\* been decremented fewer than MaxRunTicks times since the toggle that
\* armed it (SpecCountdown has no such limit)
MaxRunTicks == 3
\* the configured l_max_duty is one of 1..MaxDutyLimit
MaxDutyLimit == 2

(* ------------------------- program constants -------------------------- *)
FLAP_OPEN == 0
FLAP_HOLD_LIMIT == 10
RXPIN_HOLD_LIMIT == 5
PIO_HOLD_LIMIT == 5
FLAP_RUN_MS == 8000
delay == 10
HOLD_MS == 500
CAN_ID == 99
AUX_CURRENT == 1

VARIABLES
    \* file-scope variables of app_flap.c
    stop_now, is_running, cmd_flap_trigger, flap_direction,
    \* registrations held by the firmware on behalf of this file
    pwm_callback_set, flap_registered,
    \* mcconf->l_max_duty
    l_max_duty,
    \* the motor: the duty last commanded by mc_interface_set_duty
    motor_duty,
    \* the owner: "stopped", "started", or "stopping" (inside the wait loop
    \* of app_custom_stop)
    app,
    \* my_thread: its position and its locals ("halted": the thread was
    \* re-created while alive and never runs again)
    pc, flap_hold_cnt, pio_hold_cnt, rxpin_hold_cnt, flap_count_ms,
    \* observation (history) variables, not read by the program:
    \*   trace       calls made to the firmware in the current loop iteration
    \*   tick0       the hold counters as they were when the iteration began
    \*   since       completed ticks since the latest toggle of this thread,
    \*               the toggle's tick included (-1: no toggle yet; the
    \*               count stops at SinceCap)
    \*   pending     flap was called since the flap condition was last
    \*               evaluated (a thread that begins with the flag set has
    \*               such a call before it)
    \*   after_stop  the hold the thread was in when stop_now was last set
    \*               ("elsewhere" if in none), and the holds and ticks it
    \*               began since
    \*   started_before  app_custom_start has been called
    \*   toggled_from  the values flap_direction had before the latest two
    \*               toggles of this thread (oldest first)
    \*   flap_released  the flap pad was read high since the latest toggle
    \*               (or, before any toggle, since the thread began)
    trace, tick0, since, pending, after_stop, started_before,
    toggled_from, flap_released

prog == <<stop_now, is_running, cmd_flap_trigger, flap_direction,
          pwm_callback_set, flap_registered, l_max_duty, app>>
locals == <<flap_hold_cnt, pio_hold_cnt, rxpin_hold_cnt, flap_count_ms>>
hist == <<trace, tick0, since, pending, after_stop, started_before,
          toggled_from, flap_released>>
vars == <<prog, motor_duty, pc, locals, hist>>

(* ------------------------- calls to the firmware ----------------------- *)
Ev(e, p, v, t) == [ev |-> e, peer |-> p, val |-> v, txt |-> t]
timeout_reset == Ev("timeout_reset", 0, 0, "")
palReadPad(pad, level) == Ev("palReadPad", 0, level, pad)
commands_printf(t) == Ev("commands_printf", 0, 0, t)
comm_can_set_duty(id, d) == Ev("comm_can_set_duty", id, d, "")
comm_can_set_current(id, c) == Ev("comm_can_set_current", id, c, "")
comm_can_set_current_brake(id, c) == Ev("comm_can_set_current_brake", id, c, "")
mc_interface_set_duty(d) == Ev("mc_interface_set_duty", 0, d, "")
chThdSleepMilliseconds(ms) == Ev("chThdSleepMilliseconds", 0, ms, "")

\* utils_map of the firmware's utils.c: the linear map of x from
\* [in_min, in_max] to [out_min, out_max]
utils_map(x, in_min, in_max, out_min, out_max) ==
    ((x - in_min) * (out_max - out_min)) \div (in_max - in_min) + out_min

(* ------------------------------ helpers -------------------------------- *)
\* flap_toggle: the new value of flap_direction
flap_toggle_latch(d) == IF d # 0 THEN d ELSE 1
flap_toggle(d) == IF d # 0 THEN 0 ELSE 1

\* the text flap_toggle prints for the new direction
flap_toggle_text(d) ==
    IF d # 0 THEN "new flap direction open" ELSE "new flap direction close"

\* the duty sent by a toggle, from the new direction and l_max_duty
flap_duty_swapped(direction, max_duty) ==
    utils_map(direction, 0, 1, max_duty, -max_duty)
flap_duty(direction, max_duty) ==
    utils_map(direction, 0, 1, -max_duty, max_duty)

\* one debounce update of a hold counter
hold_update_no_floor(button, cnt) ==
    IF button THEN cnt + 1 ELSE cnt - 1
hold_update(button, cnt) ==
    IF button THEN cnt + 1 ELSE IF cnt > 0 THEN cnt - 1 ELSE cnt

NoStop == [at |-> "", holds |-> 0, ticks |-> 0]
HoldPcs == {"flap_hold", "rxpin_hold", "pio_hold"}
\* a hold begun by the thread after a stop request
HoldBegun(a) == IF a.at # "" THEN [a EXCEPT !.holds = @ + 1] ELSE a
TickBegun(a) == IF a.at # "" THEN [a EXCEPT !.ticks = @ + 1] ELSE a
\* since stops counting once the countdown armed by a toggle has run out
SinceCap == FLAP_RUN_MS \div delay

(* ------------------------ reading the trace ---------------------------- *)
\* the number of calls in the current iteration that satisfy P
Calls(P(_)) == Cardinality({i \in 1..Len(trace) : P(trace[i])})
IsToggleText(e) == e.ev = "commands_printf" /\
                   e.txt \in {"new flap direction open", "new flap direction close"}
IsCanDuty(e) == e.ev = "comm_can_set_duty"
IsMotorDuty(e) == e.ev = "mc_interface_set_duty"
IsMotorDutyNonZero(e) == e.ev = "mc_interface_set_duty" /\ e.val # 0
IsMotorDutyZero(e) == e.ev = "mc_interface_set_duty" /\ e.val = 0
IsWatchdog(e) == e.ev = "timeout_reset"
IsHold(e) == e.ev = "chThdSleepMilliseconds" /\ e.val = 500
\* the iteration has read the pads; the flap pad was read low (pressed)
PadsRead == Len(trace) >= 4
FlapPressed == PadsRead /\ trace[4] = palReadPad("HW_UART_TX", 0)
RxpinPressed == PadsRead /\ trace[3] = palReadPad("HW_UART_RX", 0)
PioPressed == PadsRead /\ trace[2] = palReadPad("HW_ICU", 0)
\* the tick is complete: the thread is in the sleep that ends it
TickDone == pc = "tick_sleep"
Abs(x) == IF x < 0 THEN -x ELSE x
\* the condition that prints t has fired in the current iteration
FiredIn(t) == \E i \in 1..Len(trace) : trace[i] = commands_printf(t)

(* ------------------------------- Init ---------------------------------- *)
Init ==
    /\ stop_now = TRUE
    /\ is_running = FALSE
    /\ cmd_flap_trigger = FALSE
    /\ flap_direction = FLAP_OPEN
    /\ pwm_callback_set = FALSE
    /\ flap_registered = FALSE
    /\ l_max_duty \in 1..MaxDutyLimit
    /\ motor_duty = 0
    /\ app = "stopped"
    /\ pc = "none"
    /\ flap_hold_cnt = 0
    /\ pio_hold_cnt = 0
    /\ rxpin_hold_cnt = 0
    /\ flap_count_ms = 0
    /\ trace = << >>
    /\ tick0 = [flap |-> 0, rxpin |-> 0, pio |-> 0]
    /\ since = -1
    /\ pending = FALSE
    /\ after_stop = NoStop
    /\ started_before = FALSE
    /\ toggled_from = << >>
    /\ flap_released = FALSE

(* ------------------------------ the owner ------------------------------ *)
\* chThdCreateStatic on the static working area, with the thread at p.
\* With no thread in the area a new thread is created.  With a thread
\* still living in it (created and not yet returned) the call is
\* undefined: the kernel initialises the thread's structure and context in
\* place while its lists still hold it, and either the thread begins again
\* at my_thread's first statement or, the lists being corrupt, it never
\* runs again.
chThdCreateStatic(p) ==
    IF p \in {"none", "done"} THEN {"created"} ELSE {"created", "halted"}

app_custom_start_resets_direction ==
    /\ app # "stopping"
    /\ pwm_callback_set' = TRUE
    /\ stop_now' = FALSE
    /\ flap_direction' = FLAP_OPEN
    /\ pc' \in chThdCreateStatic(pc)
    /\ flap_registered' = TRUE
    /\ app' = "started"
    /\ started_before' = TRUE
    /\ after_stop' = NoStop
    /\ trace' = << >>
    /\ tick0' = [flap |-> 0, rxpin |-> 0, pio |-> 0]
    /\ since' = -1
    /\ toggled_from' = << >>
    /\ flap_released' = FALSE
    /\ UNCHANGED <<is_running, cmd_flap_trigger, l_max_duty,
                   motor_duty, locals, pending>>
\* app_custom_start.  It tests nothing: it can be called with the
\* application started or stopped and with an earlier thread still alive.
\* (app is the position of the one caller of the application's interface,
\* which is not inside app_custom_stop when it calls.)
app_custom_start ==
    /\ app # "stopping"
    /\ pwm_callback_set' = TRUE
    /\ stop_now' = FALSE
    /\ pc' \in chThdCreateStatic(pc)
    /\ flap_registered' = TRUE
    /\ app' = "started"
    /\ started_before' = TRUE
    /\ after_stop' = NoStop
    /\ trace' = << >>
    /\ tick0' = [flap |-> 0, rxpin |-> 0, pio |-> 0]
    /\ since' = -1
    /\ toggled_from' = << >>
    /\ flap_released' = FALSE
    /\ UNCHANGED <<is_running, cmd_flap_trigger, flap_direction, l_max_duty,
                   motor_duty, locals, pending>>

\* app_custom_stop up to the assignment of stop_now
app_custom_stop ==
    /\ app = "started"
    /\ pwm_callback_set' = FALSE
    /\ flap_registered' = FALSE
    /\ stop_now' = TRUE
    /\ app' = "stopping"
    /\ after_stop' = [at |-> IF pc \in HoldPcs THEN pc ELSE "elsewhere",
                       holds |-> 0, ticks |-> 0]
    /\ UNCHANGED <<is_running, cmd_flap_trigger, flap_direction, l_max_duty,
                   motor_duty, pc, locals, trace, tick0, since, pending, started_before,
                   toggled_from, flap_released>>

\* app_custom_configure ignores its argument and does nothing
app_custom_configure ==
    /\ UNCHANGED vars

\* app_custom_stop: the wait loop finds is_running false and the call
\* returns (while is_running is true the owner sleeps and reads again)
app_custom_stop_return ==
    /\ app = "stopping"
    /\ ~is_running
    /\ app' = "stopped"
    /\ UNCHANGED <<stop_now, is_running, cmd_flap_trigger, flap_direction,
                   pwm_callback_set, flap_registered, l_max_duty, motor_duty,
                   pc, locals, hist>>

(* ----------------------------- the terminal ---------------------------- *)
\* the command callback flap, callable while it is registered
flap ==
    /\ flap_registered
    /\ cmd_flap_trigger' = TRUE
    /\ pending' = TRUE
    /\ UNCHANGED <<stop_now, is_running, flap_direction, pwm_callback_set,
                   flap_registered, l_max_duty, motor_duty, app, pc, locals,
                   trace, tick0, since, after_stop, started_before,
                   toggled_from, flap_released>>

(* ------------------------------ my_thread ------------------------------ *)
\* my_thread from its first statement to the top of the loop
my_thread_entry ==
    /\ pc = "created"
    /\ is_running' = TRUE
    /\ flap_hold_cnt' = 0
    /\ pio_hold_cnt' = 0
    /\ rxpin_hold_cnt' = 0
    /\ flap_count_ms' = 0
    /\ pc' = "top"
    /\ trace' = << >>
    /\ tick0' = [flap |-> 0, rxpin |-> 0, pio |-> 0]
    /\ since' = -1
    /\ toggled_from' = << >>
    /\ flap_released' = FALSE
    /\ pending' = cmd_flap_trigger
    /\ UNCHANGED <<stop_now, cmd_flap_trigger, flap_direction,
                   pwm_callback_set, flap_registered, l_max_duty, motor_duty, app,
                   after_stop, started_before>>

\* the stop check at the top of the loop
StopRequested_never == FALSE
StopRequested == stop_now

\* the stop check at the top of the loop finds stop_now set: the thread
\* clears is_running and returns
my_thread_exit_reset_first ==
    /\ pc = "top"
    /\ StopRequested
    /\ is_running' = FALSE
    /\ pc' = "done"
    /\ trace' = <<timeout_reset>>
    /\ UNCHANGED <<stop_now, cmd_flap_trigger, flap_direction,
                   pwm_callback_set, flap_registered, l_max_duty, motor_duty, app,
                   locals, tick0, since, pending, after_stop, started_before,
                   toggled_from, flap_released>>
my_thread_exit_stays_running ==
    /\ pc = "top"
    /\ StopRequested
    /\ pc' = "done"
    /\ UNCHANGED <<stop_now, is_running, cmd_flap_trigger, flap_direction,
                   pwm_callback_set, flap_registered, l_max_duty, motor_duty, app,
                   locals, hist>>
my_thread_exit_stops_motor ==
    /\ pc = "top"
    /\ StopRequested
    /\ is_running' = FALSE
    /\ motor_duty' = 0
    /\ pc' = "done"
    /\ UNCHANGED <<stop_now, cmd_flap_trigger, flap_direction,
                   pwm_callback_set, flap_registered, l_max_duty, app,
                   locals, hist>>
my_thread_exit ==
    /\ pc = "top"
    /\ StopRequested
    /\ is_running' = FALSE
    /\ pc' = "done"
    /\ UNCHANGED <<stop_now, cmd_flap_trigger, flap_direction,
                   pwm_callback_set, flap_registered, l_max_duty, motor_duty, app,
                   locals, hist>>

\* the countdown is not running, or the toggle that armed it is fewer than
\* n ticks back
RunTicksBelow(n) ==
    flap_count_ms = 0 \/ flap_count_ms > FLAP_RUN_MS - n * delay

\* the stop check passes: watchdog reset, the three pads are read (Flap,
\* Pio, Rxpin are the sets the pad levels of this tick are drawn from; a
\* button is pressed when its pad reads 0) and the hold counters are updated
Poll(Flap, Pio, Rxpin) ==
    /\ pc = "top"
    /\ ~StopRequested
    /\ \E flap_pad \in Flap, pio_pad \in Pio, rxpin_pad \in Rxpin :
          LET pio_button == (pio_pad = 0)
              rxpin_button == (rxpin_pad = 0)
              flap_button == (flap_pad = 0)
          IN /\ flap_hold_cnt' = hold_update(flap_button, flap_hold_cnt)
             /\ pio_hold_cnt' = hold_update(pio_button, pio_hold_cnt)
             /\ rxpin_hold_cnt' = hold_update(rxpin_button, rxpin_hold_cnt)
             /\ trace' = <<timeout_reset,
                           palReadPad("HW_ICU", pio_pad),
                           palReadPad("HW_UART_RX", rxpin_pad),
                           palReadPad("HW_UART_TX", flap_pad)>>
             /\ flap_released' = (flap_released \/ ~flap_button)
    /\ tick0' = [flap |-> flap_hold_cnt, rxpin |-> rxpin_hold_cnt,
                 pio |-> pio_hold_cnt]
    /\ after_stop' = TickBegun(after_stop)
    /\ pc' = "flap_cond"
    /\ UNCHANGED <<prog, motor_duty, flap_count_ms, since, pending,
                   started_before, toggled_from>>

PadLevels == {0, 1}

my_thread_poll ==
    /\ RunTicksBelow(MaxRunTicks)
    /\ Poll(PadLevels, PadLevels, PadLevels)

\* the flap condition is evaluated
my_thread_flap_cond_late ==
    /\ pc = "flap_cond"
    /\ pc' = IF (flap_hold_cnt > FLAP_HOLD_LIMIT + 1) \/ cmd_flap_trigger
                THEN "flap_body" ELSE "rxpin_cond"
    /\ pending' = FALSE
    /\ UNCHANGED <<prog, motor_duty, locals, trace, tick0, since, after_stop, started_before,
                   toggled_from, flap_released>>
my_thread_flap_cond_early ==
    /\ pc = "flap_cond"
    /\ pc' = IF (flap_hold_cnt >= FLAP_HOLD_LIMIT) \/ cmd_flap_trigger
                THEN "flap_body" ELSE "rxpin_cond"
    /\ pending' = FALSE
    /\ UNCHANGED <<prog, motor_duty, locals, trace, tick0, since, after_stop,
                   started_before, toggled_from, flap_released>>
my_thread_flap_cond ==
    /\ pc = "flap_cond"
    /\ pc' = IF (flap_hold_cnt > FLAP_HOLD_LIMIT) \/ cmd_flap_trigger
                THEN "flap_body" ELSE "rxpin_cond"
    /\ pending' = FALSE
    /\ UNCHANGED <<prog, motor_duty, locals, trace, tick0, since, after_stop, started_before,
                   toggled_from, flap_released>>

\* the body of the flap condition, up to its hold
my_thread_flap_body ==
    /\ pc = "flap_body"
    /\ flap_hold_cnt' = 0
    /\ cmd_flap_trigger' = FALSE
    /\ flap_direction' = flap_toggle(flap_direction)
    /\ flap_count_ms' = FLAP_RUN_MS
    /\ LET duty == flap_duty(flap_direction', l_max_duty)
       IN /\ trace' = trace \o
                    <<commands_printf("flap button pressed"),
                      commands_printf(flap_toggle_text(flap_direction')),
                      comm_can_set_duty(CAN_ID, duty),
                      mc_interface_set_duty(duty),
                      chThdSleepMilliseconds(HOLD_MS)>>
          /\ motor_duty' = duty
    /\ since' = 0
    /\ toggled_from' = IF toggled_from = << >>
                          THEN <<flap_direction>>
                          ELSE <<toggled_from[Len(toggled_from)], flap_direction>>
    /\ flap_released' = FALSE
    /\ after_stop' = HoldBegun(after_stop)
    /\ pc' = "flap_hold"
    /\ UNCHANGED <<stop_now, is_running, pwm_callback_set, flap_registered,
                   l_max_duty, app, pio_hold_cnt, rxpin_hold_cnt,
                   tick0, pending, started_before>>

\* the hold of the flap body ends
my_thread_flap_hold ==
    /\ pc = "flap_hold"
    /\ pc' = "rxpin_cond"
    /\ UNCHANGED <<prog, motor_duty, locals, hist>>

\* the rxpin condition and its body, up to its hold
my_thread_rxpin_exclusive ==
    /\ pc = "rxpin_cond"
    /\ IF rxpin_hold_cnt > RXPIN_HOLD_LIMIT /\ ~FiredIn("flap button pressed")
          THEN /\ rxpin_hold_cnt' = 0
               /\ trace' = trace \o <<commands_printf("rxpin button pressed"),
                                       comm_can_set_current(CAN_ID, AUX_CURRENT),
                                       chThdSleepMilliseconds(HOLD_MS)>>
               /\ after_stop' = HoldBegun(after_stop)
               /\ pc' = "rxpin_hold"
          ELSE /\ pc' = "pio_cond"
               /\ UNCHANGED <<rxpin_hold_cnt, trace, after_stop>>
    /\ UNCHANGED <<prog, motor_duty, flap_hold_cnt, pio_hold_cnt, flap_count_ms,
                   tick0, since, pending, started_before,
                   toggled_from, flap_released>>
my_thread_rxpin_no_reset ==
    /\ pc = "rxpin_cond"
    /\ IF rxpin_hold_cnt > RXPIN_HOLD_LIMIT
          THEN /\ trace' = trace \o <<commands_printf("rxpin button pressed"),
                                       comm_can_set_current(CAN_ID, AUX_CURRENT),
                                       chThdSleepMilliseconds(HOLD_MS)>>
               /\ after_stop' = HoldBegun(after_stop)
               /\ pc' = "rxpin_hold"
          ELSE /\ pc' = "pio_cond"
               /\ UNCHANGED <<trace, after_stop>>
    /\ UNCHANGED <<prog, motor_duty, locals,
                   tick0, since, pending, started_before,
                   toggled_from, flap_released>>
my_thread_rxpin ==
    /\ pc = "rxpin_cond"
    /\ IF rxpin_hold_cnt > RXPIN_HOLD_LIMIT
          THEN /\ rxpin_hold_cnt' = 0
               /\ trace' = trace \o <<commands_printf("rxpin button pressed"),
                                       comm_can_set_current(CAN_ID, AUX_CURRENT),
                                       chThdSleepMilliseconds(HOLD_MS)>>
               /\ after_stop' = HoldBegun(after_stop)
               /\ pc' = "rxpin_hold"
          ELSE /\ pc' = "pio_cond"
               /\ UNCHANGED <<rxpin_hold_cnt, trace, after_stop>>
    /\ UNCHANGED <<prog, motor_duty, flap_hold_cnt, pio_hold_cnt, flap_count_ms,
                   tick0, since, pending, started_before,
                   toggled_from, flap_released>>

\* the hold of the rxpin body ends
my_thread_rxpin_hold ==
    /\ pc = "rxpin_hold"
    /\ pc' = "pio_cond"
    /\ UNCHANGED <<prog, motor_duty, locals, hist>>

\* the pio condition and its body, up to its hold
my_thread_pio_resets_both ==
    /\ pc = "pio_cond"
    /\ IF pio_hold_cnt > PIO_HOLD_LIMIT
          THEN /\ pio_hold_cnt' = 0
               /\ rxpin_hold_cnt' = 0
               /\ trace' = trace \o <<commands_printf("piopin button pressed"),
                                       comm_can_set_current_brake(CAN_ID, AUX_CURRENT),
                                       chThdSleepMilliseconds(HOLD_MS)>>
               /\ after_stop' = HoldBegun(after_stop)
               /\ pc' = "pio_hold"
          ELSE /\ pc' = "countdown"
               /\ UNCHANGED <<pio_hold_cnt, rxpin_hold_cnt, trace, after_stop>>
    /\ UNCHANGED <<prog, motor_duty, flap_hold_cnt, flap_count_ms,
                   tick0, since, pending, started_before,
                   toggled_from, flap_released>>
my_thread_pio ==
    /\ pc = "pio_cond"
    /\ IF pio_hold_cnt > PIO_HOLD_LIMIT
          THEN /\ pio_hold_cnt' = 0
               /\ trace' = trace \o <<commands_printf("piopin button pressed"),
                                       comm_can_set_current_brake(CAN_ID, AUX_CURRENT),
                                       chThdSleepMilliseconds(HOLD_MS)>>
               /\ after_stop' = HoldBegun(after_stop)
               /\ pc' = "pio_hold"
          ELSE /\ pc' = "countdown"
               /\ UNCHANGED <<pio_hold_cnt, trace, after_stop>>
    /\ UNCHANGED <<prog, motor_duty, flap_hold_cnt, rxpin_hold_cnt, flap_count_ms,
                   tick0, since, pending, started_before,
                   toggled_from, flap_released>>

\* the hold of the pio body ends
my_thread_pio_hold ==
    /\ pc = "pio_hold"
    /\ pc' = "countdown"
    /\ UNCHANGED <<prog, motor_duty, locals, hist>>

\* the countdown of the drive, up to the sleep that ends the tick
my_thread_countdown_strict ==
    /\ pc = "countdown"
    /\ flap_count_ms' = IF flap_count_ms > 0 THEN flap_count_ms - delay
                                              ELSE flap_count_ms
    /\ trace' = IF flap_count_ms' < 0
                   THEN trace \o <<mc_interface_set_duty(0),
                                   chThdSleepMilliseconds(delay)>>
                   ELSE Append(trace, chThdSleepMilliseconds(delay))
    /\ motor_duty' = IF flap_count_ms' < 0 THEN 0 ELSE motor_duty
    /\ since' = IF since >= 0 /\ since < SinceCap THEN since + 1 ELSE since
    /\ pc' = "tick_sleep"
    /\ UNCHANGED <<prog, flap_hold_cnt, pio_hold_cnt, rxpin_hold_cnt,
                   tick0, pending, after_stop, started_before,
                   toggled_from, flap_released>>
my_thread_countdown_unguarded ==
    /\ pc = "countdown"
    /\ flap_count_ms' = flap_count_ms - delay
    /\ trace' = IF flap_count_ms' <= 0
                   THEN trace \o <<mc_interface_set_duty(0),
                                   chThdSleepMilliseconds(delay)>>
                   ELSE Append(trace, chThdSleepMilliseconds(delay))
    /\ motor_duty' = IF flap_count_ms' <= 0 THEN 0 ELSE motor_duty
    /\ since' = IF since >= 0 /\ since < SinceCap THEN since + 1 ELSE since
    /\ pc' = "tick_sleep"
    /\ UNCHANGED <<prog, flap_hold_cnt, pio_hold_cnt, rxpin_hold_cnt,
                   tick0, pending, after_stop, started_before,
                   toggled_from, flap_released>>
my_thread_countdown_stops_peer ==
    /\ pc = "countdown"
    /\ flap_count_ms' = IF flap_count_ms > 0 THEN flap_count_ms - delay
                                              ELSE flap_count_ms
    /\ trace' = IF flap_count_ms' <= 0
                   THEN trace \o <<comm_can_set_duty(CAN_ID, 0),
                                   mc_interface_set_duty(0),
                                   chThdSleepMilliseconds(delay)>>
                   ELSE Append(trace, chThdSleepMilliseconds(delay))
    /\ motor_duty' = IF flap_count_ms' <= 0 THEN 0 ELSE motor_duty
    /\ since' = IF since >= 0 /\ since < SinceCap THEN since + 1 ELSE since
    /\ pc' = "tick_sleep"
    /\ UNCHANGED <<prog, flap_hold_cnt, pio_hold_cnt, rxpin_hold_cnt,
                   tick0, pending, after_stop, started_before,
                   toggled_from, flap_released>>
my_thread_countdown ==
    /\ pc = "countdown"
    /\ flap_count_ms' = IF flap_count_ms > 0 THEN flap_count_ms - delay
                                              ELSE flap_count_ms
    /\ trace' = IF flap_count_ms' <= 0
                   THEN trace \o <<mc_interface_set_duty(0),
                                   chThdSleepMilliseconds(delay)>>
                   ELSE Append(trace, chThdSleepMilliseconds(delay))
    /\ motor_duty' = IF flap_count_ms' <= 0 THEN 0 ELSE motor_duty
    /\ since' = IF since >= 0 /\ since < SinceCap THEN since + 1 ELSE since
    /\ pc' = "tick_sleep"
    /\ UNCHANGED <<prog, flap_hold_cnt, pio_hold_cnt, rxpin_hold_cnt,
                   tick0, pending, after_stop, started_before,
                   toggled_from, flap_released>>

\* the sleep that ends the tick is over: back to the top of the loop
my_thread_tick_sleep ==
    /\ pc = "tick_sleep"
    /\ pc' = "top"
    /\ trace' = << >>
    /\ tick0' = [flap |-> flap_hold_cnt, rxpin |-> rxpin_hold_cnt,
                 pio |-> pio_hold_cnt]
    /\ UNCHANGED <<prog, motor_duty, locals, since, pending, after_stop, started_before,
                   toggled_from, flap_released>>

(* --------------------------- specifications ---------------------------- *)
Next ==
    \/ app_custom_start
    \/ app_custom_stop
    \/ app_custom_stop_return
    \/ app_custom_configure
    \/ flap
    \/ my_thread_entry
    \/ my_thread_exit
    \/ my_thread_poll
    \/ my_thread_flap_cond
    \/ my_thread_flap_body
    \/ my_thread_flap_hold
    \/ my_thread_rxpin
    \/ my_thread_rxpin_hold
    \/ my_thread_pio
    \/ my_thread_pio_hold
    \/ my_thread_countdown
    \/ my_thread_tick_sleep

Spec == Init /\ [][Next]_vars

\* The countdown is followed to its end under SpecCountdown:
\* no stop request, the rxpin and pio buttons never pressed, and no limit
\* on the ticks that follow a toggle.
my_thread_poll_flap_only == Poll(PadLevels, {1}, {1})

NextCountdown ==
    \/ app_custom_start
    \/ flap
    \/ my_thread_entry
    \/ my_thread_poll_flap_only
    \/ my_thread_flap_cond
    \/ my_thread_flap_body
    \/ my_thread_flap_hold
    \/ my_thread_rxpin
    \/ my_thread_pio
    \/ my_thread_countdown
    \/ my_thread_tick_sleep

SpecCountdown == Init /\ [][NextCountdown]_vars

\* a step of the polling thread (app_custom_start leaves pc at "created"
\* or "halted", which no step of the thread does)
ThreadStep == pc' # pc /\ pc' \notin {"created", "halted"}

(* ------------------------------- C1 ------------------------------------ *)
\* C1: when app_custom_stop has returned, the polling thread has
\* terminated (and is_running is false), whatever the interleaving of
\* start, stop and the thread.
C1_StopReturnsAfterExit ==
    (app = "stopped" /\ started_before) => (pc = "done" /\ ~is_running)

(* ------------------------------- C2 ------------------------------------ *)
\* C2: a flap command issued since the flap condition was last evaluated
\* makes the next evaluation of the condition toggle; the toggle leaves
\* the flag clear, and an evaluation with no command since the last one
\* and the hold counter not above its limit does not toggle.
C2_TriggerTogglesNext ==
    [][ /\ (pc = "flap_cond" /\ ThreadStep /\ pending)
             => pc' = "flap_body"
        /\ (pc = "flap_body" /\ pc' = "flap_hold")
             => ~cmd_flap_trigger'
        /\ (pc = "flap_cond" /\ ThreadStep /\ ~pending
              /\ flap_hold_cnt <= 10)
             => pc' = "rxpin_cond" ]_vars

(* ------------------------------- C3 ------------------------------------ *)
\* C3: a tick in which the flap hold counter goes from 10 to 11 has, when
\* it is complete, made exactly one toggle of flap_direction, sent exactly
\* one duty command to CAN peer 99 and exactly one non-zero duty command
\* to the local motor, and left the flap hold counter at 0.
C3_ThresholdCrossing ==
    (TickDone /\ tick0.flap = 10 /\ FlapPressed) =>
        /\ Calls(IsToggleText) = 1
        /\ Calls(IsCanDuty) = 1
        /\ \A i \in 1..Len(trace) : IsCanDuty(trace[i]) => trace[i].peer = 99
        /\ Calls(IsMotorDutyNonZero) = 1
        /\ flap_hold_cnt = 0

C3_Witness ==
    TickDone /\ tick0.flap = 10 /\ FlapPressed /\ ~cmd_flap_trigger
    /\ Calls(IsToggleText) = 1 /\ flap_direction = 1

(* ------------------------------- C4 ------------------------------------ *)
\* C4 as stated: every hold counter is >= 0 in every state and at the end
\* of a tick differs from its value at the start of the tick by at most 1.
C4_AtMostOnePerTick ==
    /\ flap_hold_cnt >= 0 /\ rxpin_hold_cnt >= 0 /\ pio_hold_cnt >= 0
    /\ TickDone =>
          /\ Abs(flap_hold_cnt - tick0.flap) <= 1
          /\ Abs(rxpin_hold_cnt - tick0.rxpin) <= 1
          /\ Abs(pio_hold_cnt - tick0.pio) <= 1

\* C4 amended: every hold counter is >= 0 in every state; at the end of a
\* tick in which its condition did not fire it differs from its value at
\* the start of the tick by at most 1, and at the end of a tick in which
\* its condition fired it is 0.
C4_AtMostOneUnlessFired ==
    /\ flap_hold_cnt >= 0 /\ rxpin_hold_cnt >= 0 /\ pio_hold_cnt >= 0
    /\ TickDone =>
          /\ IF FiredIn("flap button pressed")
                THEN flap_hold_cnt = 0
                ELSE Abs(flap_hold_cnt - tick0.flap) <= 1
          /\ IF FiredIn("rxpin button pressed")
                THEN rxpin_hold_cnt = 0
                ELSE Abs(rxpin_hold_cnt - tick0.rxpin) <= 1
          /\ IF FiredIn("piopin button pressed")
                THEN pio_hold_cnt = 0
                ELSE Abs(pio_hold_cnt - tick0.pio) <= 1

C4_Witness ==
    /\ TickDone
    /\ FiredIn("rxpin button pressed") /\ tick0.rxpin = 5 /\ rxpin_hold_cnt = 0
    /\ ~FiredIn("flap button pressed") /\ flap_hold_cnt = tick0.flap - 1
    /\ ~FiredIn("piopin button pressed") /\ pio_hold_cnt = tick0.pio + 1

(* ------------------------------- C5 ------------------------------------ *)
\* C5: after a toggle, at the end of the n-th tick since (the toggle's
\* tick is the first) the countdown is 8000 - 10 n; no zero duty is
\* commanded while fewer than 800 such ticks are complete; at the end of
\* the 800th tick and of every later one the countdown is <= 0 and the
\* tick has commanded duty 0 to the local motor, until a toggle re-arms it.
C5_CountdownExpiry ==
    /\ (since >= 0 /\ since < 800) => Calls(IsMotorDutyZero) = 0
    /\ (TickDone /\ since >= 1 /\ since < 800) =>
          /\ flap_count_ms = 8000 - 10 * since
          /\ flap_count_ms > 0
    /\ (TickDone /\ since >= 800) =>
          /\ flap_count_ms <= 0
          /\ Calls(IsMotorDutyZero) = 1
          /\ trace[Len(trace) - 1] = mc_interface_set_duty(0)

C5_Witness ==
    /\ TickDone /\ since = 800 /\ flap_count_ms = 0
    /\ Calls(IsMotorDutyZero) = 1

(* ------------------------------- C6 ------------------------------------ *)
\* C6: a restart (a call of app_custom_start after an earlier run) finds
\* flap_direction and cmd_flap_trigger at their initial values, and the
\* new thread reaches its loop with the hold counters and the countdown
\* at 0.
C6_RestartResetsAll ==
    [][ /\ (started_before /\ app = "stopped" /\ app' = "started")
             => (flap_direction' = 0 /\ ~cmd_flap_trigger')
        /\ (pc = "created" /\ pc' = "top")
             => (flap_hold_cnt' = 0 /\ pio_hold_cnt' = 0 /\
                 rxpin_hold_cnt' = 0 /\ flap_count_ms' = 0) ]_vars

(* ------------------------------- C7 ------------------------------------ *)
\* C7 as stated: after a stop request raised while the thread is inside a
\* 500 ms hold, the thread begins no further hold and no further tick.
C7_NoFurtherHold ==
    after_stop.at \in HoldPcs =>
        (after_stop.holds = 0 /\ after_stop.ticks = 0)

\* C7 amended: after a stop request raised while the thread is inside a
\* 500 ms hold, the thread begins no further tick, and begins holds only
\* for the conditions of the tick in flight that follow the hold it was
\* in: at most two after the flap hold, one after the rxpin hold, none
\* after the pio hold; it stays running until the tick in flight is
\* complete.
C7_HoldsOfTickInFlight ==
    /\ after_stop.at \in HoldPcs =>
          /\ after_stop.ticks = 0
          /\ after_stop.holds <= (CASE after_stop.at = "flap_hold" -> 2
                                    [] after_stop.at = "rxpin_hold" -> 1
                                    [] after_stop.at = "pio_hold" -> 0)
    /\ (after_stop.at \in HoldPcs /\ pc \in HoldPcs \cup {"rxpin_cond",
            "pio_cond", "countdown", "tick_sleep"}) => is_running

C7_Witness ==
    after_stop.at = "flap_hold" /\ after_stop.holds = 2 /\ pc = "done"

(* ------------------------------- C8 ------------------------------------ *)
\* C8: when a toggle has been made (the thread is in the hold that
\* follows it), the duty it sent is +l_max_duty if the new flap_direction
\* is 1, which it printed as "open", and -l_max_duty if it is 0, printed
\* as "close"; the same value went to CAN peer 99 and to the local motor.
C8_DutyFromDirection ==
    pc = "flap_hold" =>
        LET n == Len(trace)
            duty == IF flap_direction = 1 THEN l_max_duty ELSE -l_max_duty
        IN /\ flap_direction \in {0, 1}
           /\ trace[n - 3] = commands_printf(
                 IF flap_direction = 1 THEN "new flap direction open"
                                       ELSE "new flap direction close")
           /\ trace[n - 2] = comm_can_set_duty(99, duty)
           /\ trace[n - 1] = mc_interface_set_duty(duty)

C8_Witness ==
    /\ pc = "flap_hold" /\ flap_direction = 0 /\ l_max_duty = 2
    /\ trace[Len(trace) - 1] = mc_interface_set_duty(-2)

(* ------------------------------- C9 ------------------------------------ *)
\* C9: an iteration that passed the stop check has reset the watchdog
\* exactly once, as its first call (before any pad is read), whichever
\* conditions fire in it; outside an iteration, and in the iteration that
\* observes the stop request, the watchdog is not reset.
IterationPcs == {"flap_cond", "flap_body", "flap_hold", "rxpin_cond",
                 "rxpin_hold", "pio_cond", "pio_hold", "countdown",
                 "tick_sleep"}
C9_WatchdogOncePerIteration ==
    /\ pc \in IterationPcs =>
          (Calls(IsWatchdog) = 1 /\ trace[1] = timeout_reset)
    /\ pc \notin IterationPcs => Calls(IsWatchdog) = 0

C9_Witness ==
    TickDone /\ Calls(IsHold) = 2 /\ Calls(IsWatchdog) = 1

(* ------------------------------- C10 ----------------------------------- *)
\* C10: in a complete tick every hold counter above its limit has fired
\* (rxpin and pio fire exactly then), and the firings and their 500 ms
\* holds occur in the order flap, hold, rxpin, hold, pio, hold: each
\* firing is followed by its own hold before the next one.
IsFireOrHold(e) ==
    \/ IsHold(e)
    \/ e.ev = "commands_printf" /\
       e.txt \in {"flap button pressed", "rxpin button pressed",
                  "piopin button pressed"}
FireAndHold(t) ==
    IF FiredIn(t) THEN <<commands_printf(t), chThdSleepMilliseconds(500)>>
                  ELSE << >>
C10_OrderedNoExclusion ==
    TickDone =>
        /\ (FlapPressed /\ tick0.flap >= 10) => FiredIn("flap button pressed")
        /\ (RxpinPressed /\ tick0.rxpin >= 5) <=> FiredIn("rxpin button pressed")
        /\ (PioPressed /\ tick0.pio >= 5) <=> FiredIn("piopin button pressed")
        /\ SelectSeq(trace, IsFireOrHold) =
              FireAndHold("flap button pressed")
              \o FireAndHold("rxpin button pressed")
              \o FireAndHold("piopin button pressed")

C10_Witness ==
    /\ TickDone /\ Calls(IsHold) = 3
    /\ tick0.flap = 10 /\ tick0.rxpin = 5 /\ tick0.pio = 5


(* ------------------------------- C11 ----------------------------------- *)
\* C11: the trigger flag is a single slot.  The flap commands (one or more)
\* that occur between two consecutive evaluations of the flap condition
\* produce exactly one toggle: the evaluation that follows them goes to
\* the flap body, and the body flips flap_direction once and leaves the
\* slot empty.  No toggle is unpaid: each one follows a flap counter above
\* its limit or a flap command that no earlier toggle has used.
C11_CommandsMakeOneToggle ==
    [][ /\ (pc = "flap_cond" /\ ThreadStep /\ pending) => pc' = "flap_body"
        /\ (pc = "flap_body" /\ ThreadStep) =>
              /\ flap_direction' # flap_direction
              /\ ~cmd_flap_trigger'
        /\ (pc = "flap_cond" /\ pc' = "flap_body") =>
              (flap_hold_cnt > FLAP_HOLD_LIMIT \/ cmd_flap_trigger) ]_vars

(* ------------------------------- C12 ----------------------------------- *)
IsCanCurrent(e) == e.ev = "comm_can_set_current"
IsCanCurrentBrake(e) == e.ev = "comm_can_set_current_brake"
IsCanCurrentOne(e) == e = comm_can_set_current(99, 1)
IsCanCurrentBrakeOne(e) == e = comm_can_set_current_brake(99, 1)

\* C12: at the end of a tick, the tick has sent a CAN current command
\* exactly when the rxpin counter was above 5 after the tick's counter
\* update, and a CAN brake-current command exactly when the pio counter
\* was above 5; a firing sends one command, with value 1 to peer 99, and
\* resets its own counter only: every counter is 0 if its own condition
\* fired and keeps its updated value otherwise.
C12_AuxCommands ==
    TickDone =>
        LET flap_up == hold_update(FlapPressed, tick0.flap)
            rxpin_up == hold_update(RxpinPressed, tick0.rxpin)
            pio_up == hold_update(PioPressed, tick0.pio)
        IN /\ Calls(IsCanCurrent) = (IF rxpin_up > 5 THEN 1 ELSE 0)
           /\ Calls(IsCanCurrentOne) = Calls(IsCanCurrent)
           /\ Calls(IsCanCurrentBrake) = (IF pio_up > 5 THEN 1 ELSE 0)
           /\ Calls(IsCanCurrentBrakeOne) = Calls(IsCanCurrentBrake)
           /\ rxpin_hold_cnt = (IF rxpin_up > 5 THEN 0 ELSE rxpin_up)
           /\ pio_hold_cnt = (IF pio_up > 5 THEN 0 ELSE pio_up)
           /\ flap_hold_cnt = (IF FiredIn("flap button pressed") THEN 0
                                                                  ELSE flap_up)
C12_Witness ==
    /\ TickDone
    /\ Calls(IsCanCurrentBrake) = 1
    /\ Calls(IsCanCurrent) = 0
    /\ rxpin_hold_cnt > 0
    /\ flap_hold_cnt > 0

(* ------------------------------- C13 ----------------------------------- *)
\* C13: flap_direction changes only in the toggle the polling thread
\* performs in the flap body: the rxpin and pio bodies, the countdown, the
\* flap command, app_custom_start, app_custom_stop and app_custom_configure
\* leave it unchanged.  The hold counters and the countdown are written by
\* steps of the polling thread only.
C13_DriveStateFrame ==
    [][ /\ (flap_direction' # flap_direction) =>
              (ThreadStep /\ pc = "flap_body" /\ pc' = "flap_hold")
        /\ (locals' # locals) => ThreadStep ]_vars
C13_Witness ==
    /\ flap_direction # FLAP_OPEN
    /\ cmd_flap_trigger
    /\ app = "started"
    /\ pc = "created"
    /\ flap_count_ms > 0

(* ------------------------------- C14 ----------------------------------- *)
\* C14: flap_count_ms is a multiple of 10 in 0..8000 in every reachable
\* state.  A toggle sets it to 8000 whatever it was; apart from that (and
\* the thread's entry, which sets it to 0) it changes only by the
\* countdown step taking 10 off a value above 0.
C14_CountdownRange ==
    /\ [](flap_count_ms \in 0..8000 /\ flap_count_ms % 10 = 0)
    /\ [][ /\ (pc = "flap_body" /\ ThreadStep) => flap_count_ms' = 8000
           /\ (flap_count_ms' # flap_count_ms) =>
                 \/ pc = "flap_body" /\ flap_count_ms' = 8000
                 \/ pc = "created" /\ flap_count_ms' = 0
                 \/ /\ pc = "countdown"
                    /\ flap_count_ms > 0
                    /\ flap_count_ms' = flap_count_ms - 10
           /\ (pc = "countdown" /\ ThreadStep /\ flap_count_ms = 0) =>
                 flap_count_ms' = 0 ]_vars
C14_Witness ==
    /\ pc = "flap_body"
    /\ flap_count_ms = 4000
    /\ since = 400

(* ------------------------------- C15 ----------------------------------- *)
\* C15: two consecutive toggles restore the direction: after a toggle the
\* direction differs from the one before it, and after two toggles it is
\* the direction held before the first of the two, whichever that was.
C15_TwoTogglesRestore ==
    /\ flap_direction \in {0, 1}
    /\ (Len(toggled_from) >= 1) =>
          flap_direction # toggled_from[Len(toggled_from)]
    /\ (Len(toggled_from) = 2) => flap_direction = toggled_from[1]
C15_Witness ==
    /\ toggled_from = <<1, 0>>
    /\ flap_direction = 1
    /\ pc = "flap_hold"

(* ------------------------------- C16 ----------------------------------- *)
\* the steps of the polling thread
my_thread ==
    \/ my_thread_entry
    \/ my_thread_exit
    \/ my_thread_poll
    \/ my_thread_flap_cond
    \/ my_thread_flap_body
    \/ my_thread_flap_hold
    \/ my_thread_rxpin
    \/ my_thread_rxpin_hold
    \/ my_thread_pio
    \/ my_thread_pio_hold
    \/ my_thread_countdown
    \/ my_thread_tick_sleep

\* the first call of app_custom_start
app_custom_start_first ==
    /\ ~started_before
    /\ app_custom_start

\* One run of the application, from its start to the return of
\* app_custom_stop, with all inputs free.
NextFair ==
    \/ app_custom_start_first
    \/ app_custom_stop
    \/ app_custom_stop_return
    \/ app_custom_configure
    \/ flap
    \/ my_thread

InitFair ==
    /\ Init
    /\ l_max_duty = 1

\* SpecFair has a fair scheduler: the polling thread runs when it can (its
\* sleeps end), and so does the caller waiting in app_custom_stop.  The
\* duty limit plays no part in stopping and is fixed.
SpecFair ==
    /\ InitFair
    /\ [][NextFair]_vars
    /\ WF_vars(my_thread)
    /\ WF_vars(app_custom_stop_return)

\* C16: under fair scheduling app_custom_stop terminates: once stop_now
\* is set the thread reaches the top of its loop, observes it and clears
\* is_running, and the waiting caller returns.
C16_StopTerminates ==
    (app = "stopping") ~> (app = "stopped" /\ pc = "done" /\ ~is_running)
C16_Witness ==
    /\ app = "stopped"
    /\ pc = "done"
    /\ ~is_running
    /\ after_stop.at = "flap_hold"
    /\ after_stop.holds = 2

(* ------------------------------- C17 ----------------------------------- *)
\* C17: the hold counters are bounded although the code has no upper
\* bound: the flap counter is never above 11 and is at most 10 when a tick
\* has ended, the rxpin and pio counters are never above 6 and are at most
\* 5 when a tick has ended.
C17_CountersBounded ==
    /\ flap_hold_cnt \in 0..11
    /\ rxpin_hold_cnt \in 0..6
    /\ pio_hold_cnt \in 0..6
    /\ (pc \in {"tick_sleep", "top"}) =>
          /\ flap_hold_cnt <= 10
          /\ rxpin_hold_cnt <= 5
          /\ pio_hold_cnt <= 5
C17_Witness ==
    /\ pc = "flap_cond"
    /\ flap_hold_cnt = 11
    /\ rxpin_hold_cnt = 6
    /\ pio_hold_cnt = 6

(* ------------------------------- C18 ----------------------------------- *)
\* C18: every duty command sent to the CAN bus goes to peer 99, has the
\* value +l_max_duty or -l_max_duty (never 0), and is sent in a toggle:
\* it follows the two prints of the flap body and there is one per toggle.
\* The tick in which the countdown has run out sets the local motor duty
\* to 0 and sends nothing to the peer.
C18_PeerNeverStopped ==
    /\ \A i \in 1..Len(trace) :
          IsCanDuty(trace[i]) =>
             /\ trace[i].peer = 99
             /\ trace[i].val \in {l_max_duty, -l_max_duty}
             /\ trace[i].val # 0
             /\ i >= 3
             /\ trace[i - 2] = commands_printf("flap button pressed")
             /\ IsToggleText(trace[i - 1])
    /\ Calls(IsCanDuty) = Calls(IsToggleText)
    /\ (TickDone /\ flap_count_ms = 0) =>
          /\ trace[Len(trace) - 1] = mc_interface_set_duty(0)
          /\ Calls(IsCanDuty) = 0
C18_Witness ==
    /\ TickDone
    /\ since = 800
    /\ motor_duty = 0
    /\ Calls(IsMotorDutyZero) = 1
    /\ Calls(IsCanDuty) = 0

(* ------------------------------- C19 ----------------------------------- *)
\* C19: when the thread has exited with the countdown still above 0, it
\* has issued no zero duty since the latest toggle: the duty last
\* commanded to the local motor is the non-zero drive duty of that toggle
\* (+l_max_duty for direction 1, -l_max_duty for direction 0), and it
\* stays so while app_custom_stop waits and after it has returned.
C19_ExitLeavesDrive ==
    (pc = "done" /\ flap_count_ms > 0) =>
        /\ motor_duty = (IF flap_direction = 1 THEN l_max_duty
                                               ELSE -l_max_duty)
        /\ motor_duty # 0
        /\ Calls(IsMotorDutyZero) = 0
C19_Witness ==
    /\ pc = "done"
    /\ app = "stopped"
    /\ flap_count_ms > 0
    /\ motor_duty = -l_max_duty
    /\ since = 2

(* ------------------------------- C20 ----------------------------------- *)
\* C20: while the flap pad is read low on every tick, the thread toggles
\* once every 11 ticks: with no release since the latest toggle the flap
\* counter is the number of ticks completed after the toggle's own tick,
\* the next toggle comes when 11 ticks have been completed, and each
\* toggle re-arms the countdown to 8000.  A toggle caused by the button
\* (the counter is above 10, or no flap command has set the flag) comes in
\* a tick that read the pad low with the counter at 10, reached one press
\* at a time from 0, and never fewer than 11 ticks after the toggle before
\* it.
C20_HeldButtonRepeats ==
    /\ (pc = "flap_body" /\ (flap_hold_cnt > 10 \/ ~cmd_flap_trigger)) =>
          /\ flap_hold_cnt = 11
          /\ tick0.flap = 10
          /\ FlapPressed
          /\ (since >= 0) => since >= 11
          /\ (since >= 0 /\ ~flap_released) => since = 11
    /\ (pc \in {"tick_sleep", "top"} /\ since >= 1 /\ ~flap_released) =>
          /\ since <= 11
          /\ flap_hold_cnt = since - 1
    /\ (pc = "flap_hold") =>
          /\ flap_count_ms = 8000
          /\ flap_hold_cnt = 0
C20_Witness ==
    /\ pc = "flap_body"
    /\ flap_hold_cnt = 11
    /\ ~cmd_flap_trigger
    /\ ~flap_released
    /\ since = 11
    /\ flap_count_ms = 7890
    /\ Len(toggled_from) = 2

====
